---- MODULE Spec2Model ----
(***************************************************************************)
(* Model of the resumable swap-log ingestor (src/dex/index.js, the second  *)
(* program of the file, lines 100-470): the RPC failover manager, the      *)
(* chunk loop, the progress checkpoint and the append-to-JSON-file         *)
(* protocol; and of the price correction script (src/dex/fix2.js).         *)
(*                                                                         *)
(* The specifications share the definitions below:                         *)
(*   SpecAppend   appendSwapsToFile applied repeatedly, uninterrupted      *)
(*   SpecChunks   the chunk arithmetic of main's for loop                  *)
(*   SpecRpc      RPCManager.getWorkingProvider / executeWithRetry         *)
(*   SpecRpcLive  SpecRpc with fair steps                                  *)
(*   SpecPrice    fix2.js: calculateExecutionPrice over the records        *)
(*   Spec         main: runs, external termination, restarts, the disk     *)
(***************************************************************************)
EXTENDS Integers, Sequences, FiniteSets, TLC

VARIABLES
    outFile,     \* OUTPUT_FILE on disk: [exists, text]
    tmpFile,     \* OUTPUT_FILE + ".temp" on disk: [exists, text]
    apExpected,  \* SpecAppend: prior records followed by every chunk appended
    apCount,     \* SpecAppend: number of appendSwapsToFile calls made
    apRet,       \* SpecAppend: what the last appendSwapsToFile call returned
    cfg,         \* [startBlock, endBlock, chunkSize]: START_BLOCK, END_BLOCK, CHUNK_SIZE
    loaded,      \* progress.lastProcessedBlock as loadProgress returned it
    fromBlock,   \* the for loop's variable
    visited,     \* the chunks <<fromBlock, toBlock>> the loop has entered, in order
    pc,          \* where the process is
    rpcPc,             \* where executeWithRetry / getWorkingProvider is
    currentIndex,      \* RPCManager.currentIndex
    failedRpcs,        \* RPCManager.failedRpcs
    provider,          \* RPCManager.provider: the URL it is bound to, 0 for null
    lastFailResetTime, \* RPCManager.lastFailResetTime
    now,               \* Date.now()
    reachable,         \* the endpoints that answer at this moment
    attempts,          \* getWorkingProvider's loop counter
    attempt,           \* executeWithRetry's loop counter
    err,               \* the error executeWithRetry's catch holds
    gwpElapsed,        \* the reset interval had elapsed when this getWorkingProvider call began
    gwpFailed0,        \* failedRpcs when this getWorkingProvider call began
    gwpSkipped,        \* the endpoints this getWorkingProvider call skipped as failed
    markedSinceReset,  \* the endpoints marked failed since the failed-set was last cleared
    opCalls,           \* the operation's invocations in this executeWithRetry call, recursion included
    callClean,         \* every endpoint has answered all through this executeWithRetry call
    exhausted,         \* this executeWithRetry call has recursed after "All RPCs failed"
    opCause,           \* what made the operation throw the error the catch holds: "remote" (a request through the handle failed), "local" (the operation's own code threw), "none"
    gwpVisits,         \* the endpoints this getWorkingProvider call visited, in order: <<url, "skip" | "fail" | "ok">>
    progFile,          \* PROGRESS_FILE on disk: [exists, valid, lastProcessedBlock, totalSwaps]
    chunkSwaps,        \* main: the records decoded from the current chunk
    totalNewSwaps,     \* main: totalNewSwaps
    existingSwapCount, \* main: existingSwapCount
    runs,              \* the number of runs started
    ingested,          \* the blocks whose chunk appendSwapsToFile has reported appended, over all runs
    covered,           \* the blocks whose chunk was appended in this run
    outBefore,         \* OUTPUT_FILE when the current appendSwapsToFile call began
    inAppend,          \* the process is, or was terminated, inside appendSwapsToFile
    failCause,         \* why appendSwapsToFile returned false: "parse" or "io"
    failedFrom,        \* fromBlock of the chunk whose fetch failed last, 0 - 1 for none
    deleted,           \* this run has deleted PROGRESS_FILE
    logIdx,            \* main: the position of the per-log loop in the chunk's logs
    failedLogs,        \* the logs of the current chunk whose decoding threw
    lastSaved,         \* the lastProcessedBlock this run wrote last, the loaded one before its first write
    appendedThisRun,   \* the number of records appendSwapsToFile has appended in this run
    badProg,           \* PROGRESS_FILE existed and did not parse when this run started
    badOut,            \* OUTPUT_FILE existed and did not parse when this run started
    fxSwaps,           \* fix2.js main: swaps, the parsed records
    fxI,               \* fix2.js main: the loop variable i
    fxPc,              \* fix2.js main: where it is
    fxOut              \* uniswap_wbtc_usdc_swaps_corrected.json on disk: [exists, text]

(***************************************************************************)
(* File text.  A file's text is a sequence of tokens; a record token       *)
(* stands for the rendering of one swap object, v naming the swap.         *)
(***************************************************************************)
Tok(k, v) == [k |-> k, v |-> v]
LB == Tok("[", 0)
RB == Tok("]", 0)
COMMA == Tok(",", 0)
NL == Tok("nl", 0)
IND == Tok("ind", 0)
REC(id) == Tok("rec", id)

IsWs(t) == t.k \in {"nl", "ind"}

Absent == [exists |-> FALSE, text |-> <<>>]
File(t) == [exists |-> TRUE, text |-> t]

\* String.prototype.trim
RECURSIVE TrimRight(_)
TrimRight(s) ==
    IF s # <<>> /\ IsWs(s[Len(s)]) THEN TrimRight(SubSeq(s, 1, Len(s) - 1)) ELSE s

RECURSIVE TrimLeft(_)
TrimLeft(s) ==
    IF s # <<>> /\ IsWs(s[1]) THEN TrimLeft(SubSeq(s, 2, Len(s))) ELSE s

Trim(s) == TrimLeft(TrimRight(s))

\* existingData.replace(/\s*\]$/, ''): a closing bracket at the very end goes,
\* with the whitespace before it; any other text is left as it is
StripClosing(s) ==
    IF s # <<>> /\ s[Len(s)] = RB THEN TrimRight(SubSeq(s, 1, Len(s) - 1)) ELSE s

\* JSON.stringify(newSwaps, null, 2)
RECURSIVE PrettyItems(_)
PrettyItems(swaps) ==
    IF swaps = <<>> THEN <<>>
    ELSE <<NL, IND, REC(Head(swaps))>>
         \o (IF Len(swaps) > 1 THEN <<COMMA>> ELSE <<>>)
         \o PrettyItems(Tail(swaps))

JSONstringify2(swaps) ==
    IF swaps = <<>> THEN <<LB, RB>> ELSE <<LB>> \o PrettyItems(swaps) \o <<NL, RB>>

\* newSwaps.map(swap => '  ' + JSON.stringify(swap)).join(',\n')
RECURSIVE MapJoin(_)
MapJoin(swaps) ==
    IF swaps = <<>> THEN <<>>
    ELSE <<IND, REC(Head(swaps))>>
         \o (IF Len(swaps) > 1 THEN <<COMMA, NL>> ELSE <<>>)
         \o MapJoin(Tail(swaps))

\* newDataString of appendSwapsToFile, from the stripped existing text
NewDataStringNoComma(stripped, newSwaps) == MapJoin(newSwaps)

NewDataString(stripped, newSwaps) ==
    LET t == Trim(stripped) IN
    IF t # <<>> /\ t[Len(t)] = LB
    THEN MapJoin(newSwaps)
    ELSE <<COMMA, NL>> \o MapJoin(newSwaps)

\* the text appendSwapsToFile writes to the temporary file
TempContent(existingText, newSwaps) ==
    LET stripped == StripClosing(Trim(existingText)) IN
    stripped \o NewDataString(stripped, newSwaps) \o <<NL, RB>>

\* the texts that take the "empty file" path: '' and '[]' after trim
IsEmptyData(existingText) == Trim(existingText) \in {<<>>, <<LB, RB>>}

\* JSON.parse of a file text: whitespace between tokens is skipped; the text
\* must be '[' rec (',' rec)* ']' or '[' ']'.  ok = FALSE is the SyntaxError.
StripWs(s) == SelectSeq(s, LAMBDA t : ~IsWs(t))

JSONparse(s) ==
    LET c == StripWs(s)
        n == Len(c)
        ok == /\ n >= 2
              /\ c[1] = LB
              /\ c[n] = RB
              /\ \/ n = 2
                 \/ /\ n % 2 = 1
                    /\ \A i \in 2..(n - 1) :
                          IF i % 2 = 0 THEN c[i].k = "rec" ELSE c[i] = COMMA
    IN  [ok |-> ok,
         val |-> IF ok THEN [j \in 1..((n - 1) \div 2) |-> c[2 * j].v] ELSE <<>>]

(***************************************************************************)
(* appendSwapsToFile, run to its end without interruption: the value       *)
(* returned and the two files afterwards.                                  *)
(***************************************************************************)
\* newSwaps.length === 0
NoSwapsNever(newSwaps) == FALSE

NoSwaps(newSwaps) == Len(newSwaps) = 0

AppendSwapsToFile(out, tmp, newSwaps) ==
    IF NoSwaps(newSwaps) THEN [ret |-> TRUE, out |-> out, tmp |-> tmp]
    ELSE IF ~out.exists \/ IsEmptyData(out.text)
    THEN [ret |-> TRUE, out |-> File(JSONstringify2(newSwaps)), tmp |-> tmp]
    ELSE LET t == TempContent(out.text, newSwaps) IN
         IF JSONparse(t).ok
         THEN [ret |-> TRUE, out |-> File(t), tmp |-> Absent]
         ELSE [ret |-> FALSE, out |-> out, tmp |-> Absent]

(***************************************************************************)
(* Bounds                                                                  *)
(***************************************************************************)
MaxRec == 2        \* swaps are named 1..MaxRec in SpecAppend
MaxChunkLen == 2   \* records per appended chunk in SpecAppend
MaxAppends == 3    \* appendSwapsToFile calls per behaviour of SpecAppend

RECURSIVE SeqsUpTo(_, _)
SeqsUpTo(S, n) ==
    IF n = 0 THEN {<<>>}
    ELSE LET shorter == SeqsUpTo(S, n - 1) IN
         shorter \cup {Append(s, x) : s \in shorter, x \in S}

\* a compact rendering of an array, as another writer would produce it
RECURSIVE CompactItems(_)
CompactItems(swaps) ==
    IF swaps = <<>> THEN <<>>
    ELSE <<REC(Head(swaps))>>
         \o (IF Len(swaps) > 1 THEN <<COMMA>> ELSE <<>>)
         \o CompactItems(Tail(swaps))

\* the output files an append sequence may start from: none, empty, '[]',
\* an empty array holding whitespace, and valid arrays in two renderings
InitialOutFiles ==
    {Absent, File(<<>>), File(<<NL>>), File(<<LB, RB>>), File(<<LB, RB, NL>>),
     File(<<LB, NL, RB>>)}
    \cup {File(JSONstringify2(p)) : p \in SeqsUpTo(1..MaxRec, 2) \ {<<>>}}
    \cup {File(<<LB>> \o CompactItems(p) \o <<RB>>) : p \in SeqsUpTo(1..MaxRec, 2) \ {<<>>}}

PriorRecords(f) == IF f.exists /\ JSONparse(f.text).ok THEN JSONparse(f.text).val ELSE <<>>

(***************************************************************************)
(* The chunk loop of main:                                                 *)
(*   startFromBlock = Math.max(progress.lastProcessedBlock + 1, START_BLOCK)*)
(*   for (fromBlock = startFromBlock; fromBlock <= END_BLOCK;              *)
(*        fromBlock += CHUNK_SIZE)                                         *)
(*     toBlock = Math.min(fromBlock + CHUNK_SIZE - 1, END_BLOCK)           *)
(***************************************************************************)
Max(a, b) == IF a >= b THEN a ELSE b
Min(a, b) == IF a <= b THEN a ELSE b

StartFromBlock(lastProcessedBlock, c) == Max(lastProcessedBlock + 1, c.startBlock)

LoopCond(from, c) == from <= c.endBlock

ToBlockUnclipped(from, c) == from + c.chunkSize - 1

ToBlock(from, c) == Min(from + c.chunkSize - 1, c.endBlock)

NextFromBlock(from, c) == from + c.chunkSize

Cfg(s, e, n) == [startBlock |-> s, endBlock |-> e, chunkSize |-> n]

MaxBlock == 5      \* SpecChunks: block numbers 0..MaxBlock
MaxChunk == 3      \* SpecChunks: chunk sizes 1..MaxChunk

\* the configurations and loaded checkpoints SpecChunks starts from: every
\* small one, and the scenario 100..249 by 50 fresh and resumed at 149
ChunkInputs ==
    {<<Cfg(s, e, n), c>> : s \in 0..MaxBlock, e \in 0..MaxBlock,
                           n \in 1..MaxChunk, c \in (-1)..(MaxBlock + 1)}
    \cup {<<Cfg(100, 249, 50), c>> : c \in {99, 149, 199, 249}}

(***************************************************************************)
(* RPCManager                                                              *)
(***************************************************************************)
NumRpcs == 2            \* RPC_URL.length
MaxRetries == 3         \* executeWithRetry's default maxRetries
FailResetInterval == 1  \* failResetInterval, in clock ticks
MaxTime == 4            \* the clock stops here

Urls == 1..NumRpcs
\* this.rpcUrls[i]
RpcUrl(i) == i + 1

\* this.failedRpcs.has(rpcUrl)
IsFailedNever(rpcUrl) == FALSE

IsFailed(rpcUrl) == rpcUrl \in failedRpcs

\* Date.now() - this.lastFailResetTime > this.failResetInterval
ResetDueLate == now - lastFailResetTime > 2 * FailResetInterval + 1

ResetDue == now - lastFailResetTime > FailResetInterval

\* moveToNextRpc
MoveToNextRpcStay(i) == i

MoveToNextRpc(i) == (i + 1) % NumRpcs

\* err.message.includes("All RPCs failed")
IsPoolExhaustionNever(e) == FALSE

IsPoolExhaustion(e) == e = "AllRpcsFailed"

vars == <<outFile, tmpFile, apExpected, apCount, apRet, cfg, loaded, fromBlock,
          visited, pc, rpcPc, currentIndex, failedRpcs, provider,
          lastFailResetTime, now, reachable, attempts, attempt, err,
          gwpElapsed, gwpFailed0, gwpSkipped, markedSinceReset, opCalls,
          callClean, exhausted, gwpVisits, opCause, progFile,
          chunkSwaps, totalNewSwaps, existingSwapCount, runs, ingested, covered,
          outBefore, inAppend, failCause, failedFrom, deleted, logIdx,
          failedLogs, lastSaved, appendedThisRun, badProg, badOut, fxSwaps,
          fxI, fxPc, fxOut>>

mainVars == <<progFile, chunkSwaps, totalNewSwaps, existingSwapCount, runs,
              ingested, covered, outBefore, inAppend, failCause,
              failedFrom, deleted, logIdx, failedLogs, lastSaved,
              appendedThisRun, badProg, badOut>>

runGhosts == <<logIdx, failedLogs, lastSaved, appendedThisRun, badProg, badOut>>

fixVars == <<fxSwaps, fxI, fxPc, fxOut>>

\* fix2.js not started
FixIdle ==
    /\ fxSwaps = <<>>
    /\ fxI = 0
    /\ fxPc = "idle"
    /\ fxOut = Absent

rpcVars == <<rpcPc, currentIndex, failedRpcs, provider, lastFailResetTime, now,
             reachable, attempts, attempt, err, gwpElapsed, gwpFailed0,
             gwpSkipped, markedSinceReset, opCalls, callClean, exhausted,
             gwpVisits, opCause>>

\* new RPCManager(RPC_URL), no call running
RpcIdle ==
    /\ rpcPc = "idle"
    /\ currentIndex = 0
    /\ failedRpcs = {}
    /\ provider = 0
    /\ lastFailResetTime = 0
    /\ now = 0
    /\ reachable = Urls
    /\ attempts = 0
    /\ attempt = 0
    /\ err = "none"
    /\ gwpElapsed = FALSE
    /\ gwpFailed0 = {}
    /\ gwpSkipped = {}
    /\ markedSinceReset = {}
    /\ opCalls = 0
    /\ callClean = TRUE
    /\ exhausted = FALSE
    /\ gwpVisits = <<>>
    /\ opCause = "none"

appendVars == <<apExpected, apCount, apRet>>
diskVars == <<outFile, tmpFile>>
loopVars == <<cfg, loaded, fromBlock, visited, pc>>

LoopIdle ==
    /\ cfg = Cfg(0, 0, 1)
    /\ loaded = -1
    /\ fromBlock = 0
    /\ visited = <<>>
    /\ pc = "idle"

(***************************************************************************)
(* main: configuration, the progress file, the chain                       *)
(***************************************************************************)
START_BLOCK == 1
END_BLOCK == 4
CHUNK_SIZE == 2
MaxRuns == 2       \* runs started per behaviour of Spec

MainCfg == Cfg(START_BLOCK, END_BLOCK, CHUNK_SIZE)
Blocks == START_BLOCK..END_BLOCK
NoChunk == 0 - 1

\* PROGRESS_FILE: absent, present but not parseable (opened for writing and
\* not yet, or only partly, written), or the JSON of saveProgress
NoProgress ==
    [exists |-> FALSE, valid |-> FALSE, lastProcessedBlock |-> 0, totalSwaps |-> 0]
TruncatedProgress ==
    [exists |-> TRUE, valid |-> FALSE, lastProcessedBlock |-> 0, totalSwaps |-> 0]
Progress(lastProcessedBlock, totalSwaps) ==
    [exists |-> TRUE, valid |-> TRUE, lastProcessedBlock |-> lastProcessedBlock,
     totalSwaps |-> totalSwaps]

\* loadProgress().lastProcessedBlock
LoadProgress(f, c) ==
    IF f.exists /\ f.valid THEN f.lastProcessedBlock ELSE c.startBlock - 1

\* getExistingSwapCount: '},' matches plus one, 0 for no, empty or '[]' file
CommaMatches(data) ==
    Cardinality({i \in 1..(Len(data) - 1) : data[i].k = "rec" /\ data[i + 1] = COMMA})

GetExistingSwapCount(out) ==
    IF ~out.exists THEN 0
    ELSE LET data == Trim(out.text) IN
         IF data = <<>> \/ data = <<LB, RB>> THEN 0
         ELSE IF CommaMatches(data) > 0 THEN CommaMatches(data) + 1 ELSE 1

\* a record cut off inside its text
PART == Tok("part", 0)

\* what a write of text t leaves when it stops early: a proper prefix, cut
\* between two tokens or inside a record
PartialTexts(t) ==
    {SubSeq(t, 1, n) : n \in 1..(Len(t) - 1)}
    \cup {SubSeq(t, 1, n - 1) \o <<PART>> : n \in {i \in 1..Len(t) : t[i].k = "rec"}}

\* provider.getLogs({fromBlock, toBlock}): the chain holds one Swap log per
\* block, named by its block number
LogsIn(from, to) == [i \in 1..(to - from + 1) |-> from + i - 1]

\* the per-log loop after a log whose decoding threw: the next log (i is the
\* position of the log, n the number of logs)
AfterDecodeFailAbort(i, n) == n + 1

AfterDecodeFail(i, n) == i + 1

\* the catch of the chunk: saveProgress(fromBlock - 1, ...)
ErrCheckpointStart(from) == START_BLOCK - 1

ErrCheckpoint(from) == from - 1

\* where main goes when appendSwapsToFile returned false: break, to the code
\* after the loop
AfterAppendFailedContinue == "sleep_ok"

AfterAppendFailed == "completed"

\* the copies of unparseable state files the program has kept: it makes none
\* (loadProgress only logs the error; getExistingSwapCount never parses, and
\* copies OUTPUT_FILE only when reading it throws)
Backups == {}

\* the catch of appendSwapsToFile: if (fs.existsSync(tempFile)) fs.unlinkSync(tempFile)
CatchCleanupKeep(tmp) == tmp

CatchCleanup(tmp) == Absent

MainIdle ==
    /\ progFile = NoProgress
    /\ chunkSwaps = <<>>
    /\ totalNewSwaps = 0
    /\ existingSwapCount = 0
    /\ runs = 0
    /\ ingested = {}
    /\ covered = {}
    /\ outBefore = Absent
    /\ inAppend = FALSE
    /\ failCause = "none"
    /\ failedFrom = NoChunk
    /\ deleted = FALSE
    /\ logIdx = 0
    /\ failedLogs = {}
    /\ lastSaved = START_BLOCK - 1
    /\ appendedThisRun = 0
    /\ badProg = FALSE
    /\ badOut = FALSE

AppendIdle ==
    /\ apExpected = <<>>
    /\ apCount = 0
    /\ apRet = TRUE

(***************************************************************************)
(* SpecChunks                                                              *)
(***************************************************************************)
InitChunks ==
    /\ \E in \in ChunkInputs :
          /\ in[1].startBlock <= in[1].endBlock
          /\ cfg = in[1]
          /\ loaded = in[2]
    /\ fromBlock = StartFromBlock(loaded, cfg)
    /\ visited = <<>>
    /\ pc = "loop"
    /\ outFile = Absent
    /\ tmpFile = Absent
    /\ AppendIdle
    /\ RpcIdle
    /\ MainIdle
    /\ FixIdle

\* one iteration: the condition holds, the body runs on [fromBlock, toBlock]
ChunkLoopBody ==
    /\ pc = "loop"
    /\ LoopCond(fromBlock, cfg)
    /\ visited' = Append(visited, <<fromBlock, ToBlock(fromBlock, cfg)>>)
    /\ fromBlock' = NextFromBlock(fromBlock, cfg)
    /\ UNCHANGED <<cfg, loaded, pc, diskVars, appendVars, rpcVars, mainVars,
                   fixVars>>

ChunkLoopExit ==
    /\ pc = "loop"
    /\ ~LoopCond(fromBlock, cfg)
    /\ pc' = "exit"
    /\ UNCHANGED <<cfg, loaded, fromBlock, visited, diskVars, appendVars, rpcVars,
                   mainVars, fixVars>>

NextChunks == ChunkLoopBody \/ ChunkLoopExit

SpecChunks == InitChunks /\ [][NextChunks]_vars

ResumeBlock == Max(loaded + 1, cfg.startBlock)

\* C8: the chunks iterated are the partition of [max(c+1, startBlock),
\* endBlock] into consecutive closed intervals of chunkSize blocks: in order,
\* each starting one past the previous one's end, the first at the resume
\* block, all but the last of chunkSize blocks, the last ending at endBlock;
\* 100..249 by 50 gives [100,149],[150,199],[200,249], resumed from 149 at 150.
C8_ChunkPartition ==
    LET n == Len(visited) IN
    /\ \A k \in 1..n :
          /\ visited[k][1] <= visited[k][2]
          /\ visited[k][2] <= cfg.endBlock
          /\ visited[k][1] = (IF k = 1 THEN ResumeBlock ELSE visited[k - 1][2] + 1)
          /\ visited[k][2] - visited[k][1] + 1 <= cfg.chunkSize
          /\ k < n => visited[k][2] - visited[k][1] + 1 = cfg.chunkSize
    /\ pc = "exit" =>
          /\ (n = 0) = (ResumeBlock > cfg.endBlock)
          /\ n > 0 => visited[n][2] = cfg.endBlock
          /\ (cfg = Cfg(100, 249, 50) /\ loaded = 99) =>
                visited = << <<100, 149>>, <<150, 199>>, <<200, 249>> >>
          /\ (cfg = Cfg(100, 249, 50) /\ loaded = 149) =>
                visited = << <<150, 199>>, <<200, 249>> >>

C8_Witness ==
    /\ pc = "exit"
    /\ Len(visited) = 3
    /\ loaded >= cfg.startBlock
    /\ visited[3][2] - visited[3][1] + 1 < cfg.chunkSize

(***************************************************************************)
(* SpecAppend                                                              *)
(***************************************************************************)
InitAppend ==
    /\ outFile \in InitialOutFiles
    /\ tmpFile = Absent
    /\ apExpected = PriorRecords(outFile)
    /\ apCount = 0
    /\ apRet = TRUE
    /\ LoopIdle
    /\ RpcIdle
    /\ MainIdle
    /\ FixIdle

AppendChunk ==
    /\ apCount < MaxAppends
    /\ \E c \in SeqsUpTo(1..MaxRec, MaxChunkLen) \ {<<>>} :
          LET r == AppendSwapsToFile(outFile, tmpFile, c) IN
          /\ outFile' = r.out
          /\ tmpFile' = r.tmp
          /\ apRet' = r.ret
          /\ apExpected' = apExpected \o c
          /\ apCount' = apCount + 1
    /\ UNCHANGED <<loopVars, rpcVars, mainVars, fixVars>>

NextAppend == AppendChunk

SpecAppend == InitAppend /\ [][NextAppend]_vars

\* C5: after any sequence of non-empty chunks appended to no file, an empty
\* file or a valid array file holding P, the file parses to P followed by the
\* chunks' records, each once and in order, and every call returned true.
C5_AppendConcat ==
    apCount > 0 =>
        /\ apRet = TRUE
        /\ outFile.exists
        /\ JSONparse(outFile.text) = [ok |-> TRUE, val |-> apExpected]

C5_Witness ==
    /\ apCount = MaxAppends
    /\ Len(apExpected) > MaxAppends
    /\ JSONparse(outFile.text).val = apExpected

(***************************************************************************)
(* SpecRpc: one RPCManager, executeWithRetry called again and again with   *)
(* an operation that may succeed or fail; endpoints come and go and the    *)
(* clock advances at any moment (every await lets both happen).            *)
(***************************************************************************)
InitRpc ==
    /\ RpcIdle
    /\ LoopIdle
    /\ AppendIdle
    /\ MainIdle
    /\ FixIdle
    /\ outFile = Absent
    /\ tmpFile = Absent

otherVars == <<diskVars, appendVars, loopVars, mainVars, fixVars>>

\* executeWithRetry(operation): for (let attempt = 1; ...
ExecuteWithRetry ==
    /\ rpcPc \in {"idle", "returned", "thrown"}
    /\ attempt' = 1
    /\ err' = "none"
    /\ rpcPc' = "try"
    /\ UNCHANGED <<currentIndex, failedRpcs, provider, lastFailResetTime, now,
                   reachable, attempts, gwpElapsed, gwpFailed0, gwpSkipped,
                   markedSinceReset, otherVars>>
    /\ opCalls' = 0
    /\ callClean' = (reachable = Urls)
    /\ exhausted' = FALSE
    /\ UNCHANGED gwpVisits
    /\ opCause' = "none"

\* getWorkingProvider, up to its loop: the periodic reset, attempts = 0
GetWorkingProviderEnter ==
    /\ rpcPc = "try"
    /\ IF ResetDue
       THEN /\ failedRpcs' = {}
            /\ lastFailResetTime' = now
            /\ markedSinceReset' = {}
       ELSE UNCHANGED <<failedRpcs, lastFailResetTime, markedSinceReset>>
    /\ attempts' = 0
    /\ gwpElapsed' = (now - lastFailResetTime > FailResetInterval)
    /\ gwpFailed0' = failedRpcs
    /\ gwpSkipped' = {}
    /\ rpcPc' = "gwp"
    /\ UNCHANGED <<currentIndex, provider, now, reachable, attempt, err, otherVars>>
    /\ gwpVisits' = <<>>
    /\ UNCHANGED <<opCalls, callClean, exhausted>>
    /\ UNCHANGED opCause

\* loop iteration, the endpoint under the cursor is in the failed-set
GwpSkip ==
    /\ rpcPc = "gwp"
    /\ attempts < NumRpcs
    /\ IsFailed(RpcUrl(currentIndex))
    /\ currentIndex' = MoveToNextRpc(currentIndex)
    /\ attempts' = attempts + 1
    /\ gwpSkipped' = gwpSkipped \cup {RpcUrl(currentIndex)}
    /\ UNCHANGED <<rpcPc, failedRpcs, provider, lastFailResetTime, now, reachable,
                   attempt, err, gwpElapsed, gwpFailed0, markedSinceReset, otherVars>>
    /\ gwpVisits' = Append(gwpVisits, <<RpcUrl(currentIndex), "skip">>)
    /\ UNCHANGED <<opCalls, callClean, exhausted>>
    /\ UNCHANGED opCause

\* loop iteration, getBlockNumber answers: return this.provider
GwpProbeOk ==
    /\ rpcPc = "gwp"
    /\ attempts < NumRpcs
    /\ ~IsFailed(RpcUrl(currentIndex))
    /\ RpcUrl(currentIndex) \in reachable
    /\ provider' = RpcUrl(currentIndex)
    /\ rpcPc' = "op"
    /\ UNCHANGED <<currentIndex, failedRpcs, lastFailResetTime, now, reachable,
                   attempts, attempt, err, gwpElapsed, gwpFailed0, gwpSkipped,
                   markedSinceReset, otherVars>>
    /\ gwpVisits' = Append(gwpVisits, <<RpcUrl(currentIndex), "ok">>)
    /\ UNCHANGED <<opCalls, callClean, exhausted>>
    /\ UNCHANGED opCause

\* loop iteration, getBlockNumber throws: mark failed, move on
GwpProbeFail ==
    /\ rpcPc = "gwp"
    /\ attempts < NumRpcs
    /\ ~IsFailed(RpcUrl(currentIndex))
    /\ RpcUrl(currentIndex) \notin reachable
    /\ provider' = RpcUrl(currentIndex)
    /\ failedRpcs' = failedRpcs \cup {RpcUrl(currentIndex)}
    /\ markedSinceReset' = markedSinceReset \cup {RpcUrl(currentIndex)}
    /\ currentIndex' = MoveToNextRpc(currentIndex)
    /\ attempts' = attempts + 1
    /\ UNCHANGED <<rpcPc, lastFailResetTime, now, reachable, attempt, err,
                   gwpElapsed, gwpFailed0, gwpSkipped, otherVars>>
    /\ gwpVisits' = Append(gwpVisits, <<RpcUrl(currentIndex), "fail">>)
    /\ UNCHANGED <<opCalls, callClean, exhausted>>
    /\ UNCHANGED opCause

\* the loop ends: throw new Error("All RPCs failed! ...")
GwpThrow ==
    /\ rpcPc = "gwp"
    /\ attempts >= NumRpcs
    /\ err' = "AllRpcsFailed"
    /\ rpcPc' = "catch"
    /\ UNCHANGED <<currentIndex, failedRpcs, provider, lastFailResetTime, now,
                   reachable, attempts, attempt, gwpElapsed, gwpFailed0,
                   gwpSkipped, markedSinceReset, otherVars>>
    /\ UNCHANGED <<opCalls, callClean, exhausted, gwpVisits>>
    /\ opCause' = "none"

\* return await operation(provider): the operation succeeds
OperationOk ==
    /\ rpcPc = "op"
    /\ provider \in reachable
    /\ rpcPc' = "returned"
    /\ UNCHANGED <<currentIndex, failedRpcs, provider, lastFailResetTime, now,
                   reachable, attempts, attempt, err, gwpElapsed, gwpFailed0,
                   gwpSkipped, markedSinceReset, otherVars>>
    /\ opCalls' = Min(opCalls + 1, MaxRetries + 1)
    /\ UNCHANGED <<callClean, exhausted, gwpVisits>>
    /\ UNCHANGED opCause

\* the operation throws: a request through the handle failed, or the
\* operation's own code threw (parseLog on a log that does not decode)
OperationFail ==
    /\ rpcPc = "op"
    /\ err' = "OperationError"
    /\ rpcPc' = "catch"
    /\ UNCHANGED <<currentIndex, failedRpcs, provider, lastFailResetTime, now,
                   reachable, attempts, attempt, gwpElapsed, gwpFailed0,
                   gwpSkipped, markedSinceReset, otherVars>>
    /\ opCalls' = Min(opCalls + 1, MaxRetries + 1)
    /\ UNCHANGED <<callClean, exhausted, gwpVisits>>
    /\ opCause' \in {"remote", "local"}

\* catch, last attempt, "All RPCs failed": wait 30 s, then
\* return this.executeWithRetry(operation, maxRetries)
CatchAllFailedRecurse ==
    /\ rpcPc = "catch"
    /\ attempt = MaxRetries
    /\ IsPoolExhaustion(err)
    /\ attempt' = 1
    /\ err' = "none"
    /\ rpcPc' = "try"
    /\ UNCHANGED <<currentIndex, failedRpcs, provider, lastFailResetTime, now,
                   reachable, attempts, gwpElapsed, gwpFailed0, gwpSkipped,
                   markedSinceReset, otherVars>>
    /\ exhausted' = TRUE
    /\ UNCHANGED <<opCalls, callClean, gwpVisits>>
    /\ UNCHANGED opCause

\* catch, last attempt, any other error: throw err
CatchThrow ==
    /\ rpcPc = "catch"
    /\ attempt = MaxRetries
    /\ ~IsPoolExhaustion(err)
    /\ rpcPc' = "thrown"
    /\ UNCHANGED <<currentIndex, failedRpcs, provider, lastFailResetTime, now,
                   reachable, attempts, attempt, err, gwpElapsed, gwpFailed0,
                   gwpSkipped, markedSinceReset, otherVars>>
    /\ UNCHANGED <<opCalls, callClean, exhausted, gwpVisits>>
    /\ UNCHANGED opCause

\* catch, not the last attempt: mark the bound endpoint failed, move the
\* cursor, wait 2 s * attempt, next attempt
CatchRetry ==
    /\ rpcPc = "catch"
    /\ attempt < MaxRetries
    /\ IF provider # 0
       THEN /\ failedRpcs' = failedRpcs \cup {provider}
            /\ markedSinceReset' = markedSinceReset \cup {provider}
       ELSE UNCHANGED <<failedRpcs, markedSinceReset>>
    /\ currentIndex' = MoveToNextRpc(currentIndex)
    /\ attempt' = attempt + 1
    /\ rpcPc' = "try"
    /\ UNCHANGED <<provider, lastFailResetTime, now, reachable, attempts, err,
                   gwpElapsed, gwpFailed0, gwpSkipped, otherVars>>
    /\ UNCHANGED <<opCalls, callClean, exhausted, gwpVisits>>
    /\ opCause' = "none"

\* time passes
Tick ==
    /\ now < MaxTime
    /\ now' = now + 1
    /\ UNCHANGED <<rpcPc, currentIndex, failedRpcs, provider, lastFailResetTime,
                   reachable, attempts, attempt, err, gwpElapsed, gwpFailed0,
                   gwpSkipped, markedSinceReset, otherVars>>
    /\ UNCHANGED <<opCalls, callClean, exhausted, gwpVisits>>
    /\ UNCHANGED opCause

\* time passes with the clock at its bound: both times are moved back one
\* tick, only their difference being read
TickRebase ==
    /\ now = MaxTime
    /\ lastFailResetTime > 0
    /\ lastFailResetTime' = lastFailResetTime - 1
    /\ UNCHANGED <<rpcPc, currentIndex, failedRpcs, provider, now, reachable,
                   attempts, attempt, err, gwpElapsed, gwpFailed0, gwpSkipped,
                   markedSinceReset, opCalls, callClean, exhausted, gwpVisits,
                   otherVars>>
    /\ UNCHANGED opCause

\* an endpoint goes down or comes back
EndpointFlip ==
    /\ \E u \in Urls :
          reachable' = IF u \in reachable THEN reachable \ {u} ELSE reachable \cup {u}
    /\ UNCHANGED <<rpcPc, currentIndex, failedRpcs, provider, lastFailResetTime,
                   now, attempts, attempt, err, gwpElapsed, gwpFailed0,
                   gwpSkipped, markedSinceReset, otherVars>>
    /\ callClean' = FALSE
    /\ UNCHANGED <<opCalls, exhausted, gwpVisits>>
    /\ UNCHANGED opCause

NextRpc ==
    \/ ExecuteWithRetry
    \/ GetWorkingProviderEnter
    \/ GwpSkip
    \/ GwpProbeOk
    \/ GwpProbeFail
    \/ GwpThrow
    \/ OperationOk
    \/ OperationFail
    \/ CatchAllFailedRecurse
    \/ CatchThrow
    \/ CatchRetry
    \/ Tick
    \/ TickRebase
    \/ EndpointFlip

SpecRpc == InitRpc /\ [][NextRpc]_vars

\* C6: an endpoint marked failed (by a failed probe or a failed operation)
\* is never the endpoint of the handle getWorkingProvider returns, until the
\* failed-set has been reset.
C6_FailedNeverReturned ==
    rpcPc = "op" => (provider \in Urls /\ provider \notin markedSinceReset)

\* a handle is returned while another endpoint, one that would answer a
\* probe, is marked failed
C6_Witness ==
    /\ rpcPc = "op"
    /\ markedSinceReset \cap reachable # {}
    /\ provider \notin markedSinceReset

\* C7: a getWorkingProvider call that begins after the reset interval has
\* elapsed clears the whole failed-set first: it skips no endpoint, the
\* endpoint under the cursor is always probed (and returned when it answers),
\* and the failed-set holds only the endpoints whose probe failed in this call.
C7_ResetThenProbeAll ==
    (gwpElapsed /\ rpcPc \in {"gwp", "op"}) =>
        /\ gwpSkipped = {}
        /\ Cardinality(failedRpcs) = attempts
        /\ attempts < NumRpcs => ~(RpcUrl(currentIndex) \in failedRpcs)
        /\ rpcPc = "op" => provider = RpcUrl(currentIndex)

\* a previously failed endpoint is returned by the call that reset the set
C7_Witness ==
    /\ gwpElapsed
    /\ rpcPc = "op"
    /\ provider \in gwpFailed0

\* C11: while every endpoint answers, an operation that fails each time it
\* is invoked is invoked at most maxRetries times by one executeWithRetry
\* call, and the call's final attempt ends with the operation's error (which
\* is then thrown), not with "All RPCs failed".
C11_OpFailurePropagates ==
    callClean =>
        /\ rpcPc # "returned" => opCalls <= MaxRetries
        /\ (rpcPc = "catch" /\ attempt = MaxRetries /\ opCalls > 0) =>
              err = "OperationError"

(***************************************************************************)
(* SpecRpcLive: SpecRpc with every step of the call, and the clock, fair.  *)
(***************************************************************************)
SpecRpcLive ==
    /\ InitRpc
    /\ [][NextRpc]_vars
    /\ WF_vars(GetWorkingProviderEnter)
    /\ WF_vars(GwpSkip)
    /\ WF_vars(GwpProbeOk)
    /\ WF_vars(GwpProbeFail)
    /\ WF_vars(GwpThrow)
    /\ WF_vars(OperationOk)
    /\ WF_vars(CatchAllFailedRecurse)
    /\ WF_vars(CatchThrow)
    /\ WF_vars(CatchRetry)
    /\ WF_vars(Tick)
    /\ WF_vars(TickRebase)

CallEnded == rpcPc \in {"returned", "thrown"}

\* C12: executeWithRetry never throws "All RPCs failed": on that error at the
\* last attempt it starts over at attempt 1; a call ends only after a probe
\* was answered and the operation invoked, so not while every endpoint stays
\* unreachable; and once the endpoints answer again and the operation no
\* longer fails, a call that has started over ends, returning the
\* operation's result unless the operation's own error was thrown before.
C12_ExhaustionNeverPropagates ==
    /\ [](rpcPc = "thrown" => err = "OperationError")
    /\ [](CallEnded => opCalls > 0)
    /\ [][(rpcPc = "catch" /\ attempt = MaxRetries /\ err = "AllRpcsFailed") =>
            (rpcPc' = "catch" \/ (rpcPc' = "try" /\ attempt' = 1))]_vars
    /\ [][(rpcPc # "op" /\ rpcPc' = "op") => provider' \in reachable']_vars
    /\ [][(rpcPc = "op" /\ rpcPc' = "returned") => provider \in reachable]_vars
    /\ (<>[](reachable = Urls) /\ <>[][~OperationFail]_vars) =>
          ((exhausted /\ ~CallEnded) ~> CallEnded)

\* a call that started over after "All RPCs failed" has returned
C12_Witness ==
    /\ exhausted
    /\ rpcPc = "returned"

VisitedUrls == {gwpVisits[k][1] : k \in 1..Len(gwpVisits)}
Probes == {k \in 1..Len(gwpVisits) : gwpVisits[k][2] # "skip"}

\* C16: one getWorkingProvider call visits the endpoints in rotation order
\* from the cursor, each at most once, so it makes at most N probes; every
\* step of its loop but the return raises the loop counter, which N bounds,
\* so the loop ends; it returns on the first probe that is answered, and it
\* throws "All RPCs failed" exactly when all N endpoints were visited and each
\* was skipped as failed or failed its probe, every endpoint being in the
\* failed-set then.
C16_OnePassOverPool ==
    /\ [](rpcPc \in {"gwp", "op"} =>
            /\ Len(gwpVisits) <= NumRpcs
            /\ Cardinality(VisitedUrls) = Len(gwpVisits)
            /\ Cardinality(Probes) <= NumRpcs
            /\ \A k \in 1..(Len(gwpVisits) - 1) :
                  /\ gwpVisits[k + 1][1] = RpcUrl(MoveToNextRpc(gwpVisits[k][1] - 1))
                  /\ gwpVisits[k][2] # "ok"
            /\ attempts <= NumRpcs
            /\ rpcPc = "gwp" => Len(gwpVisits) = attempts
            /\ rpcPc = "op" =>
                  /\ gwpVisits # <<>>
                  /\ gwpVisits[Len(gwpVisits)] = <<provider, "ok">>)
    /\ [][(rpcPc = "gwp" /\ gwpVisits' # gwpVisits) =>
            \/ rpcPc' = "op"
            \/ rpcPc' = "gwp" /\ attempts' = attempts + 1]_vars
    /\ [][(rpcPc = "gwp" /\ rpcPc' = "catch") =>
            /\ err' = "AllRpcsFailed"
            /\ Len(gwpVisits) = NumRpcs
            /\ VisitedUrls = Urls
            /\ \A k \in 1..NumRpcs : gwpVisits[k][2] \in {"skip", "fail"}
            /\ failedRpcs' = Urls]_vars
    /\ [][(rpcPc = "gwp" /\ Len(gwpVisits) = NumRpcs
            /\ gwpVisits[NumRpcs][2] # "ok") => rpcPc' \in {"gwp", "catch"}]_vars

\* a call has thrown after skipping one endpoint and probing another in vain
C16_Witness ==
    /\ rpcPc = "catch"
    /\ err = "AllRpcsFailed"
    /\ \E j, k \in 1..Len(gwpVisits) :
          gwpVisits[j][2] = "skip" /\ gwpVisits[k][2] = "fail"

\* C22: an endpoint enters the failed-set only when its probe failed or a
\* request through its handle failed; when the operation threw for a local
\* reason the catch leaves the failed-set and the cursor as they are.
C22_OnlyRemoteFailuresMark ==
    /\ [][\A u \in failedRpcs' \ failedRpcs :
            \/ rpcPc = "gwp" /\ u = RpcUrl(currentIndex) /\ u \notin reachable
            \/ rpcPc = "catch" /\ u = provider /\ opCause = "remote"]_vars
    /\ [][(rpcPc = "catch" /\ opCause = "local") =>
            /\ failedRpcs' = failedRpcs
            /\ currentIndex' = currentIndex]_vars

(***************************************************************************)
(* SpecPrice: fix2.js.  main reads the records of the output file and      *)
(* gives each its executionPrice.  An amount is the decimal string         *)
(* ethers.formatUnits wrote: a sign, a whole part and one fractional       *)
(* digit; a Number is a sign and a magnitude in tenths (binary rounding is *)
(* not modelled); a quotient is kept as numerator and denominator.         *)
(***************************************************************************)
MaxWhole == 1   \* the largest whole part of an amount
MaxFrac == 1    \* the largest fractional digit of an amount
MaxSwaps == 1   \* the largest number of records in the file

AmountStrings == [neg : BOOLEAN, whole : 0..MaxWhole, frac : 0..MaxFrac]

\* parseFloat(amount)
parseFloat(str) == [neg |-> str.neg, mag |-> str.whole * 10 + str.frac]

\* Math.abs(x)
MathAbs(x) == [neg |-> FALSE, mag |-> x.mag]

\* x === 0 (true of 0 and of -0)
IsZero(x) == x.mag = 0

null == [kind |-> "null", neg |-> FALSE, num |-> 0, den |-> 0]

\* x / y
Divide(x, y) ==
    IF y.mag = 0
    THEN [kind |-> IF x.mag = 0 THEN "NaN" ELSE "Infinity",
          neg |-> (x.neg # y.neg), num |-> 0, den |-> 0]
    ELSE [kind |-> "number", neg |-> (x.neg # y.neg), num |-> x.mag, den |-> y.mag]

\* if (abs_amount0 === 0 || abs_amount1 === 0)
EitherZeroOnlyBoth(x, y) == IsZero(x) /\ IsZero(y)

EitherZero(x, y) == IsZero(x) \/ IsZero(y)

calculateExecutionPrice(amount0, amount1) ==
    LET abs_amount0 == MathAbs(parseFloat(amount0))
        abs_amount1 == MathAbs(parseFloat(amount1))
    IN  IF EitherZero(abs_amount0, abs_amount1)
        THEN null
        ELSE Divide(abs_amount1, abs_amount0)

\* the records index.js wrote: amounts as strings, the old price field
SwapRecords ==
    [amount0 : AmountStrings, amount1 : AmountStrings, hasPrice : {TRUE},
     executionPrice : {[kind |-> "undefined", neg |-> FALSE, num |-> 0, den |-> 0]}]

\* delete swap.price
DeletePriceKeep(swap) == swap

DeletePrice(swap) == [swap EXCEPT !.hasPrice = FALSE]

\* what JSON.stringify writes for a record: NaN and Infinity become null
JSONvalue(swap) ==
    IF swap.executionPrice.kind \in {"NaN", "Infinity"}
    THEN [swap EXCEPT !.executionPrice = null]
    ELSE swap

\* uniswap_wbtc_usdc_swaps.json as fix2.js may find it: missing, cut off, or
\* the array index.js wrote
FixInputFiles ==
    {Absent, File(<<LB>>)}
    \cup {File(JSONstringify2(r)) : r \in SeqsUpTo(SwapRecords, MaxSwaps)}

InitPrice ==
    /\ outFile \in FixInputFiles
    /\ fxSwaps = <<>>
    /\ fxI = 0
    /\ fxPc = "start"
    /\ fxOut = Absent
    /\ tmpFile = Absent
    /\ LoopIdle
    /\ RpcIdle
    /\ AppendIdle
    /\ MainIdle

\* swaps = JSON.parse(fs.readFileSync("uniswap_wbtc_usdc_swaps.json"))
FixRead ==
    /\ fxPc = "start"
    /\ outFile.exists
    /\ JSONparse(outFile.text).ok
    /\ fxSwaps' = JSONparse(outFile.text).val
    /\ fxPc' = "loop"
    /\ UNCHANGED <<fxI, fxOut, diskVars, appendVars, loopVars, rpcVars, mainVars>>

\* readFileSync throws ENOENT, or JSON.parse throws: the catch logs the error
FixReadFail ==
    /\ fxPc = "start"
    /\ ~(outFile.exists /\ JSONparse(outFile.text).ok)
    /\ fxPc' = "failed"
    /\ UNCHANGED <<fxSwaps, fxI, fxOut, diskVars, appendVars, loopVars, rpcVars,
                   mainVars>>

\* one iteration of main's loop: swap.executionPrice = the price or null,
\* delete swap.price
FixSwap ==
    /\ fxPc = "loop"
    /\ fxI < Len(fxSwaps)
    /\ LET swap == fxSwaps[fxI + 1]
           executionPrice == calculateExecutionPrice(swap.amount0, swap.amount1)
       IN  fxSwaps' = [fxSwaps EXCEPT ![fxI + 1] =
                         DeletePrice([swap EXCEPT !.executionPrice = executionPrice])]
    /\ fxI' = fxI + 1
    /\ UNCHANGED <<fxPc, fxOut, diskVars, appendVars, loopVars, rpcVars, mainVars>>

\* after the loop: fs.writeFileSync("uniswap_wbtc_usdc_swaps_corrected.json",
\* JSON.stringify(swaps, null, 2))
FixSave ==
    /\ fxPc = "loop"
    /\ fxI >= Len(fxSwaps)
    /\ fxOut' = File(JSONstringify2([k \in 1..Len(fxSwaps) |-> JSONvalue(fxSwaps[k])]))
    /\ fxPc' = "done"
    /\ UNCHANGED <<fxSwaps, fxI, diskVars, appendVars, loopVars, rpcVars, mainVars>>

NextPrice ==
    \/ FixRead
    \/ FixReadFail
    \/ FixSwap
    \/ FixSave

SpecPrice == InitPrice /\ [][NextPrice]_vars

stillVars == <<appendVars, rpcVars, cfg, visited, fixVars>>

Init ==
    /\ outFile = Absent
    /\ tmpFile = Absent
    /\ MainIdle
    /\ FixIdle
    /\ AppendIdle
    /\ RpcIdle
    /\ cfg = MainCfg
    /\ loaded = START_BLOCK - 1
    /\ fromBlock = START_BLOCK
    /\ visited = <<>>
    /\ pc = "idle"

RunningPcs ==
    {"loop", "fetch", "decode", "append", "write_new", "write_tmp", "validate", "rename",
     "appended", "append_failed", "save_ok", "sleep_ok", "catch", "save_err",
     "sleep_err", "completed"}

toBlock == ToBlock(fromBlock, cfg)

\* main, up to the for loop: loadProgress, getExistingSwapCount, startFromBlock
StartRun ==
    /\ pc \in {"idle", "done", "killed"}
    /\ runs < MaxRuns
    /\ runs' = runs + 1
    /\ loaded' = LoadProgress(progFile, cfg)
    /\ existingSwapCount' = GetExistingSwapCount(outFile)
    /\ totalNewSwaps' = 0
    /\ fromBlock' = StartFromBlock(LoadProgress(progFile, cfg), cfg)
    /\ chunkSwaps' = <<>>
    /\ covered' = {}
    /\ inAppend' = FALSE
    /\ failCause' = "none"
    /\ failedFrom' = NoChunk
    /\ deleted' = FALSE
    /\ outBefore' = Absent
    /\ pc' = "loop"
    /\ logIdx' = 0
    /\ failedLogs' = {}
    /\ lastSaved' = LoadProgress(progFile, cfg)
    /\ appendedThisRun' = 0
    /\ badProg' = (progFile.exists /\ ~progFile.valid)
    /\ badOut' = (outFile.exists /\ ~IsEmptyData(outFile.text) /\ ~JSONparse(outFile.text).ok)
    /\ UNCHANGED <<outFile, tmpFile, progFile, ingested, stillVars>>

\* the for loop's condition
LoopCheck ==
    /\ pc = "loop"
    /\ pc' = IF LoopCond(fromBlock, cfg) THEN "fetch" ELSE "completed"
    /\ UNCHANGED <<outFile, tmpFile, progFile, loaded, fromBlock, chunkSwaps,
                   totalNewSwaps, existingSwapCount, runs, ingested, covered,
                   outBefore, inAppend, failCause, failedFrom,
                   deleted, stillVars, runGhosts>>

\* getLogs returns: chunkSwaps = [], the per-log loop begins
FetchOk ==
    /\ pc = "fetch"
    /\ chunkSwaps' = <<>>
    /\ logIdx' = 1
    /\ failedLogs' = {}
    /\ pc' = "decode"
    /\ UNCHANGED <<outFile, tmpFile, progFile, loaded, fromBlock, totalNewSwaps,
                   existingSwapCount, runs, ingested, covered, outBefore, inAppend,
                   failCause, failedFrom, deleted, lastSaved, appendedThisRun,
                   badProg, badOut, stillVars>>

logs == LogsIn(fromBlock, toBlock)

\* the per-log loop, executeWithRetry(parseLog, getBlock) returns:
\* chunkSwaps.push(swapData)
DecodeOk ==
    /\ pc = "decode"
    /\ logIdx <= Len(logs)
    /\ chunkSwaps' = Append(chunkSwaps, logs[logIdx])
    /\ logIdx' = logIdx + 1
    /\ UNCHANGED <<outFile, tmpFile, progFile, loaded, fromBlock, totalNewSwaps,
                   existingSwapCount, runs, ingested, covered, outBefore, inAppend,
                   failCause, failedFrom, deleted, pc, failedLogs, lastSaved,
                   appendedThisRun, badProg, badOut, stillVars>>

\* the per-log loop, the decoding throws: the inner catch logs the error
DecodeFail ==
    /\ pc = "decode"
    /\ logIdx <= Len(logs)
    /\ failedLogs' = failedLogs \cup {logs[logIdx]}
    /\ logIdx' = AfterDecodeFail(logIdx, Len(logs))
    /\ UNCHANGED <<outFile, tmpFile, progFile, loaded, fromBlock, chunkSwaps,
                   totalNewSwaps, existingSwapCount, runs, ingested, covered,
                   outBefore, inAppend, failCause, failedFrom, deleted, pc,
                   lastSaved, appendedThisRun, badProg, badOut, stillVars>>

\* the per-log loop is through
DecodeDone ==
    /\ pc = "decode"
    /\ logIdx > Len(logs)
    /\ pc' = "append"
    /\ UNCHANGED <<outFile, tmpFile, progFile, loaded, fromBlock, chunkSwaps,
                   totalNewSwaps, existingSwapCount, runs, ingested, covered,
                   outBefore, inAppend, failCause, failedFrom, deleted,
                   stillVars, runGhosts>>

\* executeWithRetry(getLogs) throws: the catch of the chunk
FetchThrow ==
    /\ pc = "fetch"
    /\ failedFrom' = fromBlock
    /\ pc' = "catch"
    /\ UNCHANGED <<outFile, tmpFile, progFile, loaded, fromBlock, chunkSwaps,
                   totalNewSwaps, existingSwapCount, runs, ingested, covered,
                   outBefore, inAppend, failCause, deleted,
                   stillVars, runGhosts>>

\* the bookkeeping of a chunk that appendSwapsToFile reports appended
MarkAppended ==
    /\ ingested' = ingested \cup (fromBlock..toBlock)
    /\ covered' = covered \cup (fromBlock..toBlock)
    /\ failedFrom' = IF failedFrom = fromBlock THEN NoChunk ELSE failedFrom
    /\ appendedThisRun' = appendedThisRun + Len(chunkSwaps)

\* appendSwapsToFile([]): return true
AppendNothing ==
    /\ pc = "append"
    /\ NoSwaps(chunkSwaps)
    /\ outBefore' = outFile
    /\ MarkAppended
    /\ pc' = "appended"
    /\ UNCHANGED <<outFile, tmpFile, progFile, loaded, fromBlock, chunkSwaps,
                   totalNewSwaps, existingSwapCount, runs, inAppend, failCause,
                   deleted, stillVars, logIdx,
                   failedLogs, lastSaved, badProg, badOut>>

\* no file yet: writeFileSync(OUTPUT_FILE, ...) creates the file
AppendCreate ==
    /\ pc = "append"
    /\ ~NoSwaps(chunkSwaps)
    /\ ~outFile.exists
    /\ outBefore' = outFile
    /\ inAppend' = TRUE
    /\ outFile' = File(<<>>)
    /\ pc' = "write_new"
    /\ UNCHANGED <<tmpFile, progFile, loaded, fromBlock, chunkSwaps, totalNewSwaps,
                   existingSwapCount, runs, ingested, covered, failCause, failedFrom, deleted, stillVars, runGhosts>>

\* the file is '' or '[]': writeFileSync(OUTPUT_FILE, ...) truncates it
AppendOverwriteEmpty ==
    /\ pc = "append"
    /\ ~NoSwaps(chunkSwaps)
    /\ outFile.exists
    /\ IsEmptyData(outFile.text)
    /\ outBefore' = outFile
    /\ inAppend' = TRUE
    /\ outFile' = File(<<>>)
    /\ pc' = "write_new"
    /\ UNCHANGED <<tmpFile, progFile, loaded, fromBlock, chunkSwaps, totalNewSwaps,
                   existingSwapCount, runs, ingested, covered, failCause, failedFrom, deleted, stillVars, runGhosts>>

\* the file holds data: writeFileSync(tempFile, ...) creates or truncates the temp file
AppendOpenTemp ==
    /\ pc = "append"
    /\ ~NoSwaps(chunkSwaps)
    /\ outFile.exists
    /\ ~IsEmptyData(outFile.text)
    /\ outBefore' = outFile
    /\ inAppend' = TRUE
    /\ tmpFile' = File(<<>>)
    /\ pc' = "write_tmp"
    /\ UNCHANGED <<outFile, progFile, loaded, fromBlock, chunkSwaps, totalNewSwaps,
                   existingSwapCount, runs, ingested, covered, failCause, failedFrom, deleted, stillVars, runGhosts>>

\* the write to OUTPUT_FILE completes: return true
WriteNew ==
    /\ pc = "write_new"
    /\ outFile' = File(JSONstringify2(chunkSwaps))
    /\ MarkAppended
    /\ inAppend' = FALSE
    /\ pc' = "appended"
    /\ UNCHANGED <<tmpFile, progFile, loaded, fromBlock, chunkSwaps, totalNewSwaps,
                   existingSwapCount, runs, outBefore, failCause, deleted, stillVars, logIdx,
                   failedLogs, lastSaved, badProg, badOut>>

\* the write to OUTPUT_FILE throws part way: catch, return false
WriteNewFail ==
    /\ pc = "write_new"
    /\ \E t \in PartialTexts(JSONstringify2(chunkSwaps)) \cup {<<>>} : outFile' = File(t)
    /\ tmpFile' = IF tmpFile.exists THEN CatchCleanup(tmpFile) ELSE tmpFile
    /\ failCause' = "io"
    /\ inAppend' = FALSE
    /\ pc' = "append_failed"
    /\ UNCHANGED <<progFile, loaded, fromBlock, chunkSwaps, totalNewSwaps,
                   existingSwapCount, runs, ingested, covered, outBefore, failedFrom, deleted, stillVars, runGhosts>>

\* the write to the temp file completes
WriteTemp ==
    /\ pc = "write_tmp"
    /\ tmpFile' = File(TempContent(outFile.text, chunkSwaps))
    /\ pc' = "validate"
    /\ UNCHANGED <<outFile, progFile, loaded, fromBlock, chunkSwaps, totalNewSwaps,
                   existingSwapCount, runs, ingested, covered, outBefore, inAppend, failCause, failedFrom, deleted, stillVars, runGhosts>>

\* the write to the temp file throws: catch, unlink it, return false
WriteTempFail ==
    /\ pc = "write_tmp"
    /\ tmpFile' = CatchCleanup(tmpFile)
    /\ failCause' = "io"
    /\ inAppend' = FALSE
    /\ pc' = "append_failed"
    /\ UNCHANGED <<outFile, progFile, loaded, fromBlock, chunkSwaps, totalNewSwaps,
                   existingSwapCount, runs, ingested, covered, outBefore, failedFrom, deleted, stillVars, runGhosts>>

\* JSON.parse(readFileSync(tempFile)) succeeds
ValidateOk ==
    /\ pc = "validate"
    /\ JSONparse(tmpFile.text).ok
    /\ pc' = "rename"
    /\ UNCHANGED <<outFile, tmpFile, progFile, loaded, fromBlock, chunkSwaps,
                   totalNewSwaps, existingSwapCount, runs, ingested, covered,
                   outBefore, inAppend, failCause, failedFrom,
                   deleted, stillVars, runGhosts>>

\* JSON.parse(readFileSync(tempFile)) throws: catch, unlink the temp file, return false
ValidateFail ==
    /\ pc = "validate"
    /\ ~JSONparse(tmpFile.text).ok
    /\ tmpFile' = IF tmpFile.exists THEN CatchCleanup(tmpFile) ELSE tmpFile
    /\ failCause' = "parse"
    /\ inAppend' = FALSE
    /\ pc' = "append_failed"
    /\ UNCHANGED <<outFile, progFile, loaded, fromBlock, chunkSwaps, totalNewSwaps,
                   existingSwapCount, runs, ingested, covered, outBefore, failedFrom, deleted, stillVars, runGhosts>>

\* fs.renameSync(tempFile, OUTPUT_FILE): return true
Rename ==
    /\ pc = "rename"
    /\ outFile' = tmpFile
    /\ tmpFile' = Absent
    /\ MarkAppended
    /\ inAppend' = FALSE
    /\ pc' = "appended"
    /\ UNCHANGED <<progFile, loaded, fromBlock, chunkSwaps, totalNewSwaps,
                   existingSwapCount, runs, outBefore, failCause, deleted, stillVars, logIdx,
                   failedLogs, lastSaved, badProg, badOut>>

\* fs.renameSync throws: catch, unlink the temp file, return false
RenameFail ==
    /\ pc = "rename"
    /\ tmpFile' = IF tmpFile.exists THEN CatchCleanup(tmpFile) ELSE tmpFile
    /\ failCause' = "io"
    /\ inAppend' = FALSE
    /\ pc' = "append_failed"
    /\ UNCHANGED <<outFile, progFile, loaded, fromBlock, chunkSwaps, totalNewSwaps,
                   existingSwapCount, runs, ingested, covered, outBefore, failedFrom, deleted, stillVars, runGhosts>>

\* appendSwapsToFile returned true: totalNewSwaps += chunkSwaps.length,
\* saveProgress(toBlock, ...) opens PROGRESS_FILE for writing
AppendedSave ==
    /\ pc = "appended"
    /\ totalNewSwaps' = totalNewSwaps + Len(chunkSwaps)
    /\ progFile' = TruncatedProgress
    /\ pc' = "save_ok"
    /\ UNCHANGED <<outFile, tmpFile, loaded, fromBlock, chunkSwaps, existingSwapCount,
                   runs, ingested, covered, outBefore, inAppend,
                   failCause, failedFrom, deleted, stillVars, runGhosts>>

\* saveProgress(toBlock, existingSwapCount + totalNewSwaps) is on disk
SaveOkWrite ==
    /\ pc = "save_ok"
    /\ progFile' = Progress(toBlock, existingSwapCount + totalNewSwaps)
    /\ lastSaved' = toBlock
    /\ pc' = "sleep_ok"
    /\ UNCHANGED <<outFile, tmpFile, loaded, fromBlock, chunkSwaps, totalNewSwaps,
                   existingSwapCount, runs, ingested, covered, outBefore, inAppend, failCause, failedFrom, deleted, stillVars, logIdx,
                   failedLogs, appendedThisRun, badProg, badOut>>

\* appendSwapsToFile returned false: break
AppendFailedBreak ==
    /\ pc = "append_failed"
    /\ pc' = AfterAppendFailed
    /\ UNCHANGED <<outFile, tmpFile, progFile, loaded, fromBlock, chunkSwaps,
                   totalNewSwaps, existingSwapCount, runs, ingested, covered,
                   outBefore, inAppend, failCause, failedFrom,
                   deleted, stillVars, runGhosts>>

\* the catch of the chunk: saveProgress(fromBlock - 1, ...) opens PROGRESS_FILE
CatchSave ==
    /\ pc = "catch"
    /\ progFile' = TruncatedProgress
    /\ pc' = "save_err"
    /\ UNCHANGED <<outFile, tmpFile, loaded, fromBlock, chunkSwaps, totalNewSwaps,
                   existingSwapCount, runs, ingested, covered, outBefore, inAppend, failCause, failedFrom, deleted, stillVars, runGhosts>>

\* saveProgress(fromBlock - 1, existingSwapCount + totalNewSwaps) is on disk
SaveErrWrite ==
    /\ pc = "save_err"
    /\ progFile' = Progress(ErrCheckpoint(fromBlock), existingSwapCount + totalNewSwaps)
    /\ lastSaved' = ErrCheckpoint(fromBlock)
    /\ pc' = "sleep_err"
    /\ UNCHANGED <<outFile, tmpFile, loaded, fromBlock, chunkSwaps, totalNewSwaps,
                   existingSwapCount, runs, ingested, covered, outBefore, inAppend, failCause, failedFrom, deleted, stillVars, logIdx,
                   failedLogs, appendedThisRun, badProg, badOut>>

\* the sleep after the chunk, 100 ms or 5 s, then the for loop's fromBlock += CHUNK_SIZE
LoopNext ==
    /\ pc \in {"sleep_ok", "sleep_err"}
    /\ fromBlock' = NextFromBlock(fromBlock, cfg)
    /\ pc' = "loop"
    /\ UNCHANGED <<outFile, tmpFile, progFile, loaded, chunkSwaps, totalNewSwaps,
                   existingSwapCount, runs, ingested, covered, outBefore, inAppend, failCause, failedFrom, deleted, stillVars, runGhosts>>

\* after the loop: if (fs.existsSync(PROGRESS_FILE)) fs.unlinkSync(PROGRESS_FILE)
Cleanup ==
    /\ pc = "completed"
    /\ progFile' = IF progFile.exists THEN NoProgress ELSE progFile
    /\ deleted' = progFile.exists
    /\ pc' = "done"
    /\ UNCHANGED <<outFile, tmpFile, loaded, fromBlock, chunkSwaps, totalNewSwaps,
                   existingSwapCount, runs, ingested, covered, outBefore, inAppend, failCause, failedFrom, stillVars, runGhosts>>

\* what is left of a process that is gone: nothing of its memory; the
\* bookkeeping of a call of appendSwapsToFile it was terminated in is kept
ProcessGone ==
    /\ loaded' = cfg.startBlock - 1
    /\ fromBlock' = cfg.startBlock
    /\ totalNewSwaps' = 0
    /\ existingSwapCount' = 0
    /\ covered' = {}
    /\ failCause' = "none"
    /\ failedFrom' = NoChunk
    /\ deleted' = FALSE
    /\ chunkSwaps' = IF inAppend THEN chunkSwaps ELSE <<>>
    /\ outBefore' = IF inAppend THEN outBefore ELSE Absent
    /\ logIdx' = 0
    /\ failedLogs' = {}
    /\ lastSaved' = START_BLOCK - 1
    /\ appendedThisRun' = 0
    /\ badProg' = FALSE
    /\ badOut' = FALSE

\* the process is terminated from outside
Kill ==
    /\ pc \in RunningPcs
    /\ pc' = "killed"
    /\ ProcessGone
    /\ UNCHANGED <<outFile, tmpFile, progFile, runs, ingested, inAppend, stillVars>>

\* the process is terminated while writeFileSync(OUTPUT_FILE, ...) is writing
KillMidWrite ==
    /\ pc = "write_new"
    /\ \E t \in PartialTexts(JSONstringify2(chunkSwaps)) : outFile' = File(t)
    /\ pc' = "killed"
    /\ ProcessGone
    /\ UNCHANGED <<tmpFile, progFile, runs, ingested, inAppend, stillVars>>

Next ==
    \/ StartRun
    \/ LoopCheck
    \/ FetchOk
    \/ DecodeOk
    \/ DecodeFail
    \/ DecodeDone
    \/ FetchThrow
    \/ AppendNothing
    \/ AppendCreate
    \/ AppendOverwriteEmpty
    \/ AppendOpenTemp
    \/ WriteNew
    \/ WriteNewFail
    \/ WriteTemp
    \/ WriteTempFail
    \/ ValidateOk
    \/ ValidateFail
    \/ Rename
    \/ RenameFail
    \/ AppendedSave
    \/ SaveOkWrite
    \/ AppendFailedBreak
    \/ CatchSave
    \/ SaveErrWrite
    \/ LoopNext
    \/ Cleanup
    \/ Kill
    \/ KillMidWrite

Spec == Init /\ [][Next]_vars

(***************************************************************************)
(* Claims about main                                                       *)
(***************************************************************************)
\* the run went through the whole loop, no append failed, and it has exited
RunCompleted == pc = "done" /\ failCause = "none"

\* how often the swap of block b stands in the output file
Occurrences(b) ==
    Cardinality({i \in 1..Len(outFile.text) : outFile.text[i] = REC(b)})

\* C1: over any sequence of runs, each resumed from the checkpoint on disk,
\* no block's logs are appended to the output file twice (no overlap), and
\* once a run has gone through the loop to END_BLOCK every block's chunk has
\* been fetched and appended (no gap).
C1_ExactCoverage ==
    /\ \A b \in Blocks : Occurrences(b) <= 1
    /\ RunCompleted => Blocks \subseteq ingested

\* the block a run started now would resume after
CheckpointOnDisk == LoadProgress(progFile, cfg)

\* C2: wherever the process is when it is terminated, the checkpoint on disk
\* is the end of the last chunk that is in the output file: no record in the
\* file lies after it (a resumed run would append it again) and every block
\* up to it has had its chunk appended (a resumed run would skip it).
C2_CheckpointIsLastAppended ==
    pc \in RunningPcs =>
        /\ \A b \in Blocks : Occurrences(b) > 0 => b <= CheckpointOnDisk
        /\ \A b \in Blocks : b <= CheckpointOnDisk => b \in ingested

\* C3: during a call of appendSwapsToFile, and after a termination inside it,
\* the output file's content is what it was before the call or the complete
\* result of the append, on each of the three paths.
C3_OutputNeverPartial ==
    inAppend =>
        \/ outFile.text = outBefore.text
        \/ outFile = AppendSwapsToFile(outBefore, Absent, chunkSwaps).out

\* C4: when parsing the temporary file fails, appendSwapsToFile returns
\* false, the temporary file is gone and the output file is as before the call.
C4_ValidationFailureLeavesOutput ==
    (pc = "append_failed" /\ failCause = "parse") =>
        /\ ~tmpFile.exists
        /\ outFile = outBefore
        /\ outBefore.exists
        /\ ~IsEmptyData(outBefore.text)
        /\ ~AppendSwapsToFile(outBefore, Absent, chunkSwaps).ret

C4_Witness ==
    /\ pc = "append_failed"
    /\ failCause = "parse"
    /\ outFile.exists
    /\ Len(outFile.text) > 1

\* C9: the checkpoint file is deleted only by a run that fetched and
\* appended every chunk from its resume block to END_BLOCK.
C9_DeleteOnlyWhenComplete ==
    [][(progFile.exists /\ ~progFile'.exists) =>
          (StartFromBlock(loaded, cfg)..END_BLOCK) \subseteq covered]_vars

\* C10: after a failed fetch of [fromBlock, toBlock] the checkpoint written
\* is fromBlock - 1, and the next chunk fetched is that same chunk.
C10_RetrySameChunk ==
    /\ pc = "sleep_err" =>
          (progFile.valid /\ progFile.lastProcessedBlock = fromBlock - 1)
    /\ (pc = "fetch" /\ failedFrom # NoChunk) => fromBlock = failedFrom

\* main has reached console.log("COMPLETED!"): its promise resolves and the
\* process exits with status 0 (status 1 only when main throws)
ReportsCompletion == pc \in {"completed", "done"}

\* the chunks this run had to do
RunRange == StartFromBlock(loaded, cfg)..END_BLOCK

\* C13: a run reports completion, and exits with the success status, only
\* if every chunk up to END_BLOCK was fetched and appended; not when it
\* stopped because an append failed.
C13_OutcomeDistinguishesHalt ==
    ReportsCompletion =>
        /\ failCause = "none"
        /\ RunRange \subseteq covered

\* C15: a run that found an unparseable checkpoint or output file at startup
\* goes on from the default (block START_BLOCK - 1, count 0), and the
\* unparseable checkpoint is overwritten only if a copy of it was kept.
C15_CorruptStateSetAside ==
    pc \in RunningPcs =>
        /\ badProg =>
              /\ loaded = START_BLOCK - 1
              /\ progFile.valid => "progress" \in Backups
        /\ badOut => existingSwapCount = 0

\* the logs of s that did not fail, in order
Decoded(s) ==
    LET Good(x) == x \notin failedLogs IN SelectSeq(s, Good)

\* the last n elements of s
Suffix(s, n) == SubSeq(s, Len(s) - n + 1, Len(s))

\* C17: in the per-log loop a log whose decoding throws is left out and the
\* loop goes on with the next log: the chunk's records are all the other
\* logs, in log order; they are what is appended to the file, and the
\* checkpoint is then written with toBlock.
C17_BadLogSkipped ==
    /\ pc = "decode" =>
          /\ logIdx <= Len(logs) + 1
          /\ chunkSwaps = Decoded(SubSeq(logs, 1, logIdx - 1))
    /\ pc \in {"append", "appended", "save_ok", "sleep_ok"} =>
          chunkSwaps = Decoded(logs)
    /\ (pc \in {"appended", "save_ok", "sleep_ok"} /\ chunkSwaps # <<>>) =>
          /\ JSONparse(outFile.text).ok
          /\ Len(JSONparse(outFile.text).val) >= Len(chunkSwaps)
          /\ Suffix(JSONparse(outFile.text).val, Len(chunkSwaps)) = chunkSwaps
    /\ pc = "sleep_ok" => progFile = Progress(toBlock, existingSwapCount + totalNewSwaps)

\* the chunk's first log failed, its second was appended, the checkpoint is written
C17_Witness ==
    /\ pc = "sleep_ok"
    /\ logs[1] \in failedLogs
    /\ chunkSwaps = <<logs[2]>>
    /\ Occurrences(logs[2]) = 1

\* C18: once appendSwapsToFile has returned false the run only leaves the
\* loop and ends: no fetch, no append (the output and temp files stay as
\* they are) and no saveProgress (the checkpoint file stays, or is deleted
\* by the code after the loop).
C18_StopAfterAppendFailure ==
    /\ [](failCause # "none" => pc \in {"append_failed", "completed", "done"})
    /\ [][(failCause # "none" /\ failCause' # "none") =>
            /\ outFile' = outFile
            /\ tmpFile' = tmpFile
            /\ progFile' \in {progFile, NoProgress}
            /\ fromBlock' = fromBlock]_vars

\* a run has ended after a failed append with a later chunk left
C18_Witness ==
    /\ pc = "done"
    /\ failCause # "none"
    /\ NextFromBlock(fromBlock, cfg) <= END_BLOCK

\* C19: each lastProcessedBlock a run writes is at least the one it wrote
\* before, and at least the one it loaded.
C19_CheckpointMonotone ==
    /\ [](pc \in RunningPcs => lastSaved >= loaded)
    /\ [][(progFile' # progFile /\ progFile'.valid) =>
            /\ progFile'.lastProcessedBlock >= lastSaved
            /\ progFile'.lastProcessedBlock >= loaded
            /\ lastSaved' = progFile'.lastProcessedBlock]_vars

\* a fetch failure's checkpoint written after a successful chunk's
C19_Witness ==
    /\ pc = "sleep_err"
    /\ covered # {}
    /\ progFile.valid
    /\ progFile.lastProcessedBlock = lastSaved
    /\ lastSaved > loaded

\* C20: a checkpoint that names the end of a chunk of this run is written
\* only after that chunk was appended, and its totalSwaps is the count taken
\* at startup plus the records appended in this run.
C20_CheckpointAfterAppend ==
    pc \in {"sleep_ok", "sleep_err"} =>
        /\ progFile.valid
        /\ progFile.lastProcessedBlock >= StartFromBlock(loaded, cfg) =>
              progFile.lastProcessedBlock \in covered
        /\ progFile.totalSwaps = existingSwapCount + appendedThisRun

\* C23: appendSwapsToFile([]) returns true and leaves the output file and
\* the temporary file as they are (absent files stay absent); main then
\* adds nothing to totalNewSwaps and writes the checkpoint with the chunk's
\* toBlock and the total as it was before the chunk.
C23_EmptyChunkAdvances ==
    /\ [][(pc = "append" /\ chunkSwaps = <<>> /\ pc' # "killed") =>
            /\ pc' = "appended"
            /\ outFile' = outFile
            /\ tmpFile' = tmpFile]_vars
    /\ [][(pc = "appended" /\ chunkSwaps = <<>> /\ pc' # "killed") =>
            /\ pc' = "save_ok"
            /\ totalNewSwaps' = totalNewSwaps
            /\ outFile' = outFile
            /\ tmpFile' = tmpFile]_vars
    /\ [][(pc = "save_ok" /\ chunkSwaps = <<>> /\ pc' # "killed") =>
            /\ progFile' = Progress(toBlock, existingSwapCount + totalNewSwaps)
            /\ outFile' = outFile
            /\ tmpFile' = tmpFile]_vars
    /\ []((pc = "sleep_ok" /\ chunkSwaps = <<>>) =>
            /\ (fromBlock..toBlock) \subseteq covered
            /\ outFile = outBefore
            /\ progFile.lastProcessedBlock = toBlock
            /\ progFile.totalSwaps = existingSwapCount + appendedThisRun)

\* the checkpoint of a chunk without records is written, no output file
\* having been created; and one after a chunk with records
C23_Witness ==
    /\ pc = "sleep_ok"
    /\ chunkSwaps = <<>>
    /\ progFile = Progress(toBlock, existingSwapCount + totalNewSwaps)
    /\ \/ ~outFile.exists /\ ~tmpFile.exists
       \/ appendedThisRun > 0
====
